---- MODULE Spec2Model ----
(***************************************************************************)
(* Model of the live progress engine of go-rich (package progress):        *)
(* the Progress manager (task registry, Start/Stop lifecycle, renderLoop,  *)
(* render/clear terminal protocol), the ProgressBar value object and the   *)
(* Tracker sample window.                                                  *)
(*                                                                         *)
(* Granularity.  Every method that runs entirely under p.mu.Lock() is one  *)
(* atomic action, enabled only while no reader holds the lock.  Start,     *)
(* Stop, renderLoop, render and clear are split at every access to state   *)
(* that is shared without a common exclusive lock (lastLineCount, the      *)
(* sink, the ticker, stopChan).                                            *)
(*                                                                         *)
(* Terminal.  Rows are numbered relative to the row the cursor was on when *)
(* the engine was created (row 0 is the first progress line); a line's     *)
(* content is the id of the task whose rendering it shows, or Blank.       *)
(***************************************************************************)
EXTENDS Integers, Sequences, FiniteSets, TLC

\* ---------------------------------------------------------------- bounds
MaxAdds   == 2      \* Add/AddSpinnerWithStyle calls per engine
MaxTicks  == 2      \* firings of the ticker
MaxStarts == 2      \* Start calls that get past the running check
MaxCalls  == 2      \* Update/Advance calls
MaxBarCalls == 2    \* SetProgress/Advance calls on the stand-alone bar
IntBits   == 4      \* width standing in for the 64 bits of int64
MaxCompletes == 2   \* Complete calls that are counted
MaxNoOps  == 2      \* Start/Stop calls that find nothing to do and are counted
MaxFrames == 12     \* longest frame list a spinner is built from
MaxTrackerOps == 5  \* calls on the stand-alone tracker, clock steps included
MaxRecords == 150   \* samples recorded in a row into one tracker

\* ------------------------------------------------------ program constants
NumFrames  == 10    \* len(SpinnerDots)
SampleCap  == 100   \* tracker keeps at most this many samples
SampleKeep == 50    \* samples kept when the cap is exceeded
Window     == 2     \* speed looks at the samples of the last 2 seconds
DayCap     == 86400 \* eta is capped at this many seconds

Mantissa   == 53    \* significant bits of a float64
MinBarWidth == 10   \* the narrowest auto-sized bar
PercentLen == 6     \* columns set aside for the percentage text

Blank == 0          \* a cleared terminal line

Callers == {-1, -2}                        \* goroutines calling Start/Stop
Loops   == 1..MaxStarts                    \* renderLoop goroutines, by spawn order
Threads == Callers \cup Loops

IntMin == -(2^(IntBits-1))
IntMax == 2^(IntBits-1) - 1
IntRange == IntMin..IntMax

\* inputs offered to the engine's registration and update calls
EngTotals == {0, 2}
EngValues == {-1, 1, 3}
EngDeltas == {-1, 1}
Ids       == 0..MaxAdds                    \* 0 is never allocated

\* inputs offered to the stand-alone tracker: values recorded, and seconds
\* that pass between two calls
TrackerValues == {0, 1, 5}
ClockSteps    == {1, 3, 100000}

\* inputs offered to the stand-alone bar that is rendered: totals, values
\* set, len(description), configured widths and widths passed to Render
RenderTotals == {0, 1, 22, 400, 10000, 20000}
RenderValues == (0..22) \cup {201, 9994, 9995, 9996, 10000, 19998, 19999, 20000}
DescLens     == {0, 4}
BarWidths    == {0, 22, 40}
AvailWidths  == {0, 20, 80}

VARIABLES
    tasks,          \* p.tasks: id -> Task
    taskSeq,        \* p.taskSeq
    running,        \* p.running
    transient,      \* p.transient
    lastLineCount,  \* p.lastLineCount
    ticker,         \* p.ticker: set = FALSE is nil; armed; a tick pending in C
    stopClosed,     \* whether p.stopChan has been closed
    readers,        \* threads holding p.mu.RLock
    pc,             \* position of every goroutine
    todo,           \* render: tasks the range loop has not visited yet
    lineCount,      \* render: local lineCount
    clearI,         \* clear: local i
    cur,            \* terminal: cursor row
    screen,         \* terminal: row -> content
    cursorHidden,   \* terminal: cursor visibility
    now,            \* time.Now(), in refresh intervals
    nTicks,         \* ticker firings so far
    nStarts,        \* renderLoop goroutines spawned or about to be
    panicked,       \* the process died of a run-time panic
    lim,            \* the scenario: how many calls the environment makes,
                    \* which histories are kept (history: lastCall; trace: the
                    \* parts of hist, "start", "stop", "paint" and "sink"),
                    \* and whether writes to the sink can fail (faults)
    returned,       \* history: ids returned by Add*, in order, with the ids live then
    nCalls,         \* history: Update/Advance calls so far
    lastCall,       \* history: the latest Update/Advance call
    snap,           \* history: ids already removed when a tick's render began
    repainted,      \* history: removed ids a later tick's render has completed for
    hist,           \* history: what the calls and the repaints did so far
    pb,             \* a stand-alone ProgressBar
    pbOp,           \* history: the latest call on pb
    pbLook,         \* pb.description (its length) and pb.width
    pbDrawn,        \* history: the segments the latest pb.Render returned
    sp,             \* a stand-alone Spinner: len(frames), frameIndex
    spTrail,        \* history: the frame indices sp went through, newest last
    tk,             \* a stand-alone Tracker: its samples
    tkAll,          \* history: every sample recorded since the tracker was made
    tkSince,        \* history: samples recorded since it was made or last reset
    tkOps           \* history: calls made on tk, clock steps included

engineVars == <<tasks, taskSeq, running, transient, lastLineCount, ticker,
                stopClosed, readers, pc, todo, lineCount, clearI, cur, screen,
                cursorHidden, now, nTicks, nStarts, panicked, returned,
                nCalls, lastCall, snap, repainted, lim, hist>>
\* the engine's variables but the clock
engineButNow == <<tasks, taskSeq, running, transient, lastLineCount, ticker,
                  stopClosed, readers, pc, todo, lineCount, clearI, cur,
                  screen, cursorHidden, nTicks, nStarts, panicked, returned,
                  nCalls, lastCall, snap, repainted, lim, hist>>
barVars == <<pb, pbOp>>
spinVars == <<sp, spTrail>>
trackerVars == <<tk, tkAll, tkSince, tkOps>>
drawVars == <<pbLook, pbDrawn>>
aloneVars == <<barVars, spinVars, trackerVars, drawVars>>
vars == <<engineVars, lim, aloneVars>>

\* ------------------------------------------------------------ int64
\* two's-complement wraparound of Go's int64 arithmetic
Wrap(n) == ((n - IntMin) % (2^IntBits)) + IntMin

\* ------------------------------------------------------------ Tracker
\* Tracker.update: append (now, value); above the cap keep the newest 50
TrackerUpdate_OnePerTick(samples, t, value) ==
    IF Len(samples) > 0 /\ samples[Len(samples)].timestamp = t
    THEN [samples EXCEPT ![Len(samples)].value = value]
    ELSE Append(samples, [timestamp |-> t, value |-> value])

TrackerUpdate_PruneAtCap(samples, t, value) ==
    LET app == Append(samples, [timestamp |-> t, value |-> value])
    IN  IF Len(app) >= SampleCap
        THEN SubSeq(SubSeq(app, SampleKeep + 1, Len(app)), 1, SampleKeep)
        ELSE app

TrackerUpdate(samples, t, value) ==
    LET app == Append(samples, [timestamp |-> t, value |-> value])
    IN  IF Len(app) > SampleCap
        THEN SubSeq(SubSeq(app, SampleKeep + 1, Len(app)), 1, SampleKeep)
        ELSE app

\* t.samples = t.samples[:0]
TrackerReset_KeepsSamples(samples) == samples

TrackerReset(samples) == <<>>

\* The clock counts seconds.
InWindow_WholeWindow(samples, t) == samples

\* The window of speed(): walking back from the
\* newest sample, the samples no older than Window, up to the first older one
InWindow(samples, t) ==
    LET ok(i) == t - samples[i].timestamp <= Window
        from == CHOOSE i \in 1..(Len(samples) + 1) :
                    /\ \A j \in i..Len(samples) : ok(j)
                    /\ i > 1 => ~ok(i - 1)
    IN  SubSeq(samples, from, Len(samples))

\* Tracker.speed, in units per second, as the exact quotient <<num, den>>
Speed(samples, t) ==
    IF Len(samples) < 2 THEN <<0, 1>>
    ELSE LET w == InWindow(samples, t)
             windowSamples == IF Len(w) < 2 THEN samples ELSE w
             first == windowSamples[1]
             last == windowSamples[Len(windowSamples)]
             deltaValue == Wrap(last.value - first.value)
             deltaTime == last.timestamp - first.timestamp
         IN  IF deltaTime = 0 THEN <<0, 1>> ELSE <<deltaValue, deltaTime>>

\* time.Duration(x * float64(time.Second)) for x = a / b seconds, b > 0:
\* whole nanoseconds, rounded towards zero, kept as sign, seconds and
\* nanoseconds (the quotient is worked out three decimal digits at a time)
DurationOf(a, b) ==
    LET m  == IF a < 0 THEN -a ELSE a
        r0 == m % b
        d1 == (r0 * 1000) \div b
        r1 == (r0 * 1000) % b
        d2 == (r1 * 1000) \div b
        r2 == (r1 * 1000) % b
        d3 == (r2 * 1000) \div b
    IN  [neg |-> a < 0 /\ (m \div b > 0 \/ d1 + d2 + d3 > 0),
         sec |-> m \div b,
         nanos |-> d1 * 1000000 + d2 * 1000 + d3]

\* Tracker.eta, a time.Duration
Eta(samples, t, current, total) ==
    IF current >= total THEN DurationOf(0, 1)
    ELSE LET spd == Speed(samples, t)
         IN  IF spd[1] <= 0 THEN DurationOf(0, 1)
             ELSE LET remaining == Wrap(total - current)
                  IN  \* secondsRemaining = remaining / spd
                      IF remaining * spd[2] > DayCap * spd[1]
                      THEN DurationOf(DayCap, 1)
                      ELSE DurationOf(remaining * spd[2], spd[1])

\* ------------------------------------------------------------ ProgressBar
NewBar(total) == [current |-> 0, total |-> total, samples |-> <<>>]

SetProgress_NoLowerClamp(b, current, t) ==
    LET c2 == IF current > b.total THEN b.total ELSE current
    IN  [b EXCEPT !.current = c2, !.samples = TrackerUpdate(b.samples, t, c2)]

SetProgress(b, current, t) ==
    LET c1 == IF current < 0 THEN 0 ELSE current
        c2 == IF c1 > b.total THEN b.total ELSE c1
    IN  [b EXCEPT !.current = c2, !.samples = TrackerUpdate(b.samples, t, c2)]

Advance_FromZero(b, delta, t) == SetProgress(b, delta, t)

Advance(b, delta, t) == SetProgress(b, Wrap(b.current + delta), t)

\* float64 quotients are kept exact as <<numerator, denominator>>
Percentage_NoZeroCheck(b) == <<b.current, b.total>>

Percentage(b) == IF b.total = 0 THEN <<0, 1>> ELSE <<b.current, b.total>>

\* ------------------------------------------------------------ float64
\* A non-negative float64 is kept as its binary digits: bits[i] is the digit
\* of weight 2^(hi - i + 1); zero has no digits.  A float64 value proper has
\* Mantissa digits, the first of them 1.
Zeros(n) == [i \in 1..n |-> 0]

\* the binary digits of a natural number, most significant first
RECURSIVE Bin(_)
Bin(n) == IF n = 0 THEN <<>> ELSE Append(Bin(n \div 2), n % 2)

\* the natural number of binary digits
RECURSIVE BinValue(_)
BinValue(b) ==
    IF b = <<>> THEN 0 ELSE 2 * BinValue(SubSeq(b, 1, Len(b) - 1)) + b[Len(b)]

\* digits plus one unit of the last place (one digit longer on carry-out)
RECURSIVE AddOne(_)
AddOne(b) ==
    IF b = <<>> THEN <<1>>
    ELSE IF b[Len(b)] = 0 THEN [b EXCEPT ![Len(b)] = 1]
    ELSE Append(AddOne(SubSeq(b, 1, Len(b) - 1)), 0)

\* drop leading zero digits
RECURSIVE Normal(_)
Normal(x) ==
    IF x.bits = <<>> THEN [hi |-> 0, bits |-> <<>>]
    ELSE IF Head(x.bits) = 1 THEN x
    ELSE Normal([hi |-> x.hi - 1, bits |-> Tail(x.bits)])

\* IEEE 754 rounding of an exact result to the nearest float64, ties to even
RoundToFloat64(x) ==
    LET n == Normal(x)
        len == Len(n.bits)
    IN  IF len = 0 THEN n
        ELSE IF len <= Mantissa
        THEN [hi |-> n.hi, bits |-> n.bits \o Zeros(Mantissa - len)]
        ELSE LET keep == SubSeq(n.bits, 1, Mantissa)
                 half == n.bits[Mantissa + 1] = 1
                 more == \E i \in (Mantissa + 2)..len : n.bits[i] = 1
                 up == half /\ (more \/ keep[Mantissa] = 1)
                 inc == AddOne(keep)
             IN  IF ~up THEN [hi |-> n.hi, bits |-> keep]
                 ELSE IF Len(inc) > Mantissa
                 THEN [hi |-> n.hi + 1, bits |-> SubSeq(inc, 1, Mantissa)]
                 ELSE [hi |-> n.hi, bits |-> inc]

\* n binary digits of r / t after the point (r < t), and one more digit that
\* is 1 when digits other than 0 follow
RECURSIVE Frac(_, _, _)
Frac(r, t, n) ==
    IF n = 0 THEN (IF r = 0 THEN <<0>> ELSE <<1>>)
    ELSE IF 2 * r >= t THEN <<1>> \o Frac(2 * r - t, t, n - 1)
    ELSE <<0>> \o Frac(2 * r, t, n - 1)

\* float64(c) / float64(t) for integers c >= 0 and t > 0
Float64Quo(c, t) ==
    LET int == Bin(c \div t)
    IN  RoundToFloat64([hi |-> Len(int) - 1,
                        bits |-> int \o Frac(c % t, t, Mantissa + 1 + Len(Bin(t)))])

\* the j-th group of 16 digits of b, counted from the least significant
\* (j = 0), as a number
Limb(b, j) ==
    LET last == Len(b) - 16 * j
        first == IF last - 15 < 1 THEN 1 ELSE last - 15
    IN  BinValue(SubSeq(b, first, last))

\* the digits of b times n, for n < 2^15: group by group, with carries
MulBits(b, n) ==
    LET k == (Len(b) + 15) \div 16
        limb == [j \in 0..(k - 1) |-> Limb(b, j)]
        carry[j \in 0..k] ==
            IF j = 0 THEN 0 ELSE (limb[j - 1] * n + carry[j - 1]) \div 65536
        out == [j \in 0..(k - 1) |-> (limb[j] * n + carry[j]) % 65536]
    IN  Bin(carry[k]) \o
        [i \in 1..(16 * k) |->
            (out[k - 1 - ((i - 1) \div 16)] \div 2^(15 - ((i - 1) % 16))) % 2]

\* x * float64(n) for an integer n >= 0
Float64Mul(x, n) ==
    LET prod == MulBits(x.bits, n)
    IN  RoundToFloat64([hi |-> x.hi + (Len(prod) - Len(x.bits)), bits |-> prod])

\* x + 0.5
Float64AddHalf(x) ==
    IF x.bits = <<>> THEN RoundToFloat64([hi |-> -1, bits |-> <<1>>])
    ELSE LET lead == IF x.hi < -1 THEN Zeros(-1 - x.hi) ELSE <<>>
             top == IF x.hi < -1 THEN -1 ELSE x.hi
             low == top - (Len(lead) + Len(x.bits)) + 1
             all == lead \o x.bits \o (IF low > -1 THEN Zeros(low + 1) ELSE <<>>)
             upto == top + 2      \* the index of the digit of weight 1/2
             sum == AddOne(SubSeq(all, 1, upto)) \o SubSeq(all, upto + 1, Len(all))
         IN  RoundToFloat64([hi |-> top + (Len(sum) - Len(all)), bits |-> sum])

\* int(x): the digits before the point
Float64ToInt(x) ==
    IF x.hi < 0 THEN 0
    ELSE IF x.hi + 1 <= Len(x.bits) THEN BinValue(SubSeq(x.bits, 1, x.hi + 1))
    ELSE BinValue(x.bits) * 2^(x.hi + 1 - Len(x.bits))

\* x >= y
Float64Geq(x, y) ==
    IF y.bits = <<>> THEN TRUE
    ELSE IF x.bits = <<>> THEN FALSE
    ELSE IF x.hi # y.hi THEN x.hi > y.hi
    ELSE \A i \in 1..Mantissa :
            (\A j \in 1..(i - 1) : x.bits[j] = y.bits[j]) => x.bits[i] >= y.bits[i]

\* ------------------------------------------------------------ formatting
\* Texts are kept as their characters.
Digit(d) == <<"0", "1", "2", "3", "4", "5", "6", "7", "8", "9">>[d + 1]

RECURSIVE Digits(_)
Digits(n) == IF n = 0 THEN <<>> ELSE Append(Digits(n \div 10), Digit(n % 10))

formatInt(n) ==
    IF n = 0 THEN <<"0">>
    ELSE IF n < 0 THEN <<"-">> \o Digits(-n)
    ELSE Digits(n)

formatPercentage(p) ==
    LET pct == Float64ToInt(Float64AddHalf(Float64Mul(p, 1000)))
        whole == pct \div 10
        decimal == pct % 10
    IN  IF decimal = 0 THEN formatInt(whole) \o <<"%">>
        ELSE formatInt(whole) \o <<".">> \o formatInt(decimal) \o <<"%">>

\* ------------------------------------------------------------ Render
\* ProgressBar.Percentage as the float64 it is (total >= 0)
Float64Percentage(b) ==
    IF b.total = 0 THEN [hi |-> 0, bits |-> <<>>]
    ELSE Float64Quo(b.current, b.total)

\* the width of the bar proper
BarWidth(l, width) ==
    IF l.width # 0 THEN l.width
    ELSE LET descLen == IF l.description > 0 THEN l.description + 1 ELSE 0
             barWidth == width - descLen - PercentLen
         IN  IF barWidth < MinBarWidth THEN MinBarWidth ELSE barWidth

\* a segment: what it is part of, its text or, for a run of glyphs, its length
Segment(part, len, text) == [part |-> part, len |-> len, text |-> text]

\* ProgressBar.Render(console, width)
Render(b, l, width) ==
    LET barWidth == BarWidth(l, width)
        percentage == Float64Percentage(b)
        fillWidth == Float64ToInt(Float64Mul(percentage, barWidth))
        emptyWidth == barWidth - fillWidth
        percentText ==
            IF Float64Geq(percentage, Float64Quo(99995, 100000))
            THEN <<" ", "1", "0", "0", "%">>
            ELSE <<" ">> \o formatPercentage(percentage)
    IN  (IF l.description > 0
         THEN <<Segment("description", l.description + 1, <<>>)>> ELSE <<>>)
        \o (IF fillWidth > 0
            THEN <<Segment("complete", fillWidth, <<>>)>> ELSE <<>>)
        \o (IF emptyWidth > 0
            THEN <<Segment("remaining", emptyWidth, <<>>)>> ELSE <<>>)
        \o <<Segment("percent", Len(percentText), percentText)>>

\* ------------------------------------------------------------ Spinner
SpinnerNext_Stays(frameIndex) == frameIndex

SpinnerNext(frameIndex) == (frameIndex + 1) % NumFrames

\* NewSpinner(frames): n is len(frames); an empty list becomes SpinnerDots
NewSpinner(n) ==
    [given |-> n, len |-> IF n = 0 THEN NumFrames ELSE n, frameIndex |-> 0]

\* Spinner.Next on a spinner of any frame list
SpinnerNextOf_NoWrap(s) == [s EXCEPT !.frameIndex = @ + 1]

SpinnerNextOf(s) == [s EXCEPT !.frameIndex = (@ + 1) % s.len]

\* ------------------------------------------------------------ Task
BarTask(total) ==
    [kind |-> "bar", bar |-> NewBar(total), frameIndex |-> 0, completed |-> FALSE]
SpinnerTask ==
    [kind |-> "spinner", bar |-> NewBar(0), frameIndex |-> 0, completed |-> FALSE]

\* p.taskSeq++; id := p.taskSeq
NextTaskSeq_LenPlusOne(seq, ts) == Cardinality(DOMAIN ts) + 1

NextTaskSeq(seq, ts) == seq + 1

\* task, ok := p.tasks[id]; !(!ok || task.bar == nil)
IsBarTask_AnyTask(ts, id) == id \in DOMAIN ts

IsBarTask(ts, id) == id \in DOMAIN ts /\ ts[id].kind = "bar"

\* task, ok := p.tasks[id]; if !ok { return }; task.completed = true
MarkCompleted_FillsBar(ts, id) ==
    IF id \in DOMAIN ts
    THEN [ts EXCEPT ![id].completed = TRUE, ![id].bar.current = ts[id].bar.total]
    ELSE ts

MarkCompleted(ts, id) ==
    IF id \in DOMAIN ts THEN [ts EXCEPT ![id].completed = TRUE] ELSE ts

\* ------------------------------------------------------------ terminal
\* ESC[<n>A moves up n rows; a parameter of 0 counts as 1
CursorUp(row, n) == row - (IF n = 0 THEN 1 ELSE n)

\* ESC[1000D ESC[0K <text> \n : overwrite the cursor's row, go to the next
WriteLine(scr, row, content) ==
    [r \in DOMAIN scr \cup {row} |-> IF r = row THEN content ELSE scr[r]]

\* the three writes of one task line: cursor-left with clear-line, the
\* rendered text, the newline
Writes == {"clear", "text", "newline"}

\* what a task line leaves on the terminal when only the writes in ok succeed
WriteSome(scr, row, content, ok) ==
    IF "text" \in ok THEN WriteLine(scr, row, content)
    ELSE IF "clear" \in ok THEN WriteLine(scr, row, Blank)
    ELSE scr

\* lineCount++
LineCountAfter_Written(n, ok) == IF "newline" \in ok THEN n + 1 ELSE n

LineCountAfter(n, ok) == n + 1

\* p.mu.RUnlock() (deferred)
RUnlock_Forgotten(rs, t) == rs

RUnlock(rs, t) == rs \ {t}

\* ------------------------------------------------------------ Init
\* the history of an engine nobody has called yet
NoHistory ==
    [hides     |-> 0,                        \* hide-cursor sequences written
     timers    |-> 0,                        \* tickers created
     idleStarts |-> 0,                       \* Start calls that found p.running
     idleStops |-> 0,                        \* Stop calls that found !p.running
     stopRun   |-> [t \in Callers |-> 0],    \* the run a caller's Stop is ending
     finals    |-> [k \in 0..MaxStarts |-> 0],  \* final repaints/erases begun, per run
     shows     |-> [k \in 0..MaxStarts |-> 0],  \* show-cursor sequences, per run
     stopped   |-> {},                       \* runs whose Stop has returned
     dones     |-> 0,                        \* Complete calls
     lastDone  |-> 0,                        \* the id of the latest Complete call
     upd       |-> [i \in Ids |-> [n |-> 0, op |-> "none", arg |-> 0, before |-> 0]],
                                             \* per task: Update/Advance calls since
                                             \* it was last painted, and the latest
     wrote     |-> [id |-> 0, value |-> 0, frame |-> 0, n |-> 0],
                                             \* the latest line painted: the task, its
                                             \* value and frame, the calls it covers
     paintedDone |-> {},                     \* tasks painted while completed
     painted   |-> 0,                        \* lines the latest render call painted
     failed    |-> [t \in Threads |-> FALSE]]  \* a write of t's repaint has failed

EngineInit ==
    /\ tasks = <<>>
    /\ taskSeq = 0
    /\ running = FALSE
    /\ transient \in BOOLEAN
    /\ lastLineCount = 0
    /\ ticker = [set |-> FALSE, armed |-> FALSE, pending |-> FALSE]
    /\ stopClosed = FALSE
    /\ readers = {}
    /\ pc = [t \in Threads |-> IF t \in Callers THEN "idle" ELSE "none"]
    /\ todo = [t \in Threads |-> {}]
    /\ lineCount = [t \in Threads |-> 0]
    /\ clearI = [t \in Threads |-> 0]
    /\ cur = 0
    /\ screen = <<>>
    /\ cursorHidden = FALSE
    /\ now = 0
    /\ nTicks = 0
    /\ nStarts = 0
    /\ panicked = FALSE
    /\ returned = <<>>
    /\ nCalls = 0
    /\ lastCall = [op |-> "none", id |-> 0]
    /\ snap = [t \in Threads |-> {}]
    /\ repainted = {}
    /\ hist = NoHistory

\* the engine is not used
EngineIdle ==
    /\ EngineInit
    /\ transient = FALSE
    /\ lim = [adds |-> 0, ticks |-> 0, starts |-> 0, calls |-> 0,
              callers |-> {}, totals |-> {}, values |-> {}, deltas |-> {},
              complete |-> {}, history |-> FALSE, trace |-> {},
              faults |-> FALSE]

\* the stand-alone spinner is not used
SpinIdle ==
    /\ sp = NewSpinner(0)
    /\ spTrail = <<0>>

\* the stand-alone tracker is not used
TrackerIdle ==
    /\ tk = <<>>
    /\ tkAll = <<>>
    /\ tkSince = 0
    /\ tkOps = 0

\* the stand-alone bar is not used
BarIdle ==
    /\ pb = NewBar(0)
    /\ pbOp = [op |-> "NewBar", arg |-> 0, before |-> 0]

\* the stand-alone bar is not rendered
DrawIdle ==
    /\ pbLook = [description |-> 0, width |-> 0]
    /\ pbDrawn = <<>>

\* none of the stand-alone objects is used
AloneIdle ==
    /\ BarIdle
    /\ DrawIdle
    /\ SpinIdle
    /\ TrackerIdle

Init ==
    /\ EngineInit
    /\ lim = [adds |-> MaxAdds, ticks |-> MaxTicks, starts |-> 1,
              calls |-> 1, callers |-> {-1}, totals |-> {2}, values |-> {3},
              deltas |-> {1}, complete |-> {1}, history |-> FALSE, trace |-> {},
              faults |-> FALSE]
    /\ AloneIdle

\* p.mu.Lock() succeeds only while nobody holds the read lock
CanLock == readers = {} /\ ~panicked

\* where render returns to
Ret(t) == IF t \in Callers THEN "stop_newline" ELSE "select"

\* ------------------------------------------------------------ registry
Add(total) ==
    /\ CanLock
    /\ total \in lim.totals
    /\ taskSeq < lim.adds
    /\ LET id == NextTaskSeq(taskSeq, tasks)
       IN  /\ taskSeq' = id
           /\ tasks' = [i \in DOMAIN tasks \cup {id} |->
                          IF i = id THEN BarTask(total) ELSE tasks[i]]
           /\ returned' = Append(returned, [id |-> id, live |-> DOMAIN tasks])
    /\ UNCHANGED <<running, transient, lastLineCount, ticker, stopClosed,
                   readers, pc, todo, lineCount, clearI, cur, screen,
                   cursorHidden, now, nTicks, nStarts, panicked, nCalls,
                   lastCall, snap, repainted, lim, hist, aloneVars>>

AddSpinnerWithStyle ==
    /\ CanLock
    /\ taskSeq < lim.adds
    /\ LET id == NextTaskSeq(taskSeq, tasks)
       IN  /\ taskSeq' = id
           /\ tasks' = [i \in DOMAIN tasks \cup {id} |->
                          IF i = id THEN SpinnerTask ELSE tasks[i]]
           /\ returned' = Append(returned, [id |-> id, live |-> DOMAIN tasks])
    /\ UNCHANGED <<running, transient, lastLineCount, ticker, stopClosed,
                   readers, pc, todo, lineCount, clearI, cur, screen,
                   cursorHidden, now, nTicks, nStarts, panicked, nCalls,
                   lastCall, snap, repainted, lim, hist, aloneVars>>

Update(id, value) ==
    /\ CanLock
    /\ nCalls < lim.calls
    /\ nCalls' = nCalls + 1
    /\ value \in lim.values
    /\ lastCall' = IF lim.history
                   THEN [op |-> "Update", id |-> id]
                   ELSE lastCall
    /\ IF IsBarTask(tasks, id)
       THEN tasks' = [tasks EXCEPT ![id].bar = SetProgress(@, value, now)]
       ELSE tasks' = tasks
    /\ hist' = IF "paint" \in lim.trace /\ id \in DOMAIN tasks /\ tasks[id].kind = "bar"
               THEN [hist EXCEPT !.upd[id] =
                        [n |-> @.n + 1, op |-> "Update", arg |-> value,
                         before |-> tasks[id].bar.current]]
               ELSE hist
    /\ UNCHANGED <<taskSeq, running, transient, lastLineCount, ticker,
                   stopClosed, readers, pc, todo, lineCount, clearI, cur,
                   screen, cursorHidden, now, nTicks, nStarts, panicked,
                   returned, snap, repainted, lim, aloneVars>>

AdvanceTask(id, delta) ==
    /\ CanLock
    /\ nCalls < lim.calls
    /\ nCalls' = nCalls + 1
    /\ delta \in lim.deltas
    /\ lastCall' = IF lim.history
                   THEN [op |-> "Advance", id |-> id]
                   ELSE lastCall
    /\ IF IsBarTask(tasks, id)
       THEN tasks' = [tasks EXCEPT ![id].bar = Advance(@, delta, now)]
       ELSE tasks' = tasks
    /\ hist' = IF "paint" \in lim.trace /\ id \in DOMAIN tasks /\ tasks[id].kind = "bar"
               THEN [hist EXCEPT !.upd[id] =
                        [n |-> @.n + 1, op |-> "Advance", arg |-> delta,
                         before |-> tasks[id].bar.current]]
               ELSE hist
    /\ UNCHANGED <<taskSeq, running, transient, lastLineCount, ticker,
                   stopClosed, readers, pc, todo, lineCount, clearI, cur,
                   screen, cursorHidden, now, nTicks, nStarts, panicked,
                   returned, snap, repainted, lim, aloneVars>>

Complete(id) ==
    /\ CanLock
    /\ id \in lim.complete
    /\ "paint" \in lim.trace => hist.dones < MaxCompletes
    /\ tasks' = MarkCompleted(tasks, id)
    /\ hist' = IF "paint" \in lim.trace
               THEN [hist EXCEPT !.dones = @ + 1, !.lastDone = id]
               ELSE hist
    /\ UNCHANGED <<taskSeq, running, transient, lastLineCount, ticker,
                   stopClosed, readers, pc, todo, lineCount, clearI, cur,
                   screen, cursorHidden, now, nTicks, nStarts, panicked,
                   returned, nCalls, lastCall, snap, repainted, lim, aloneVars>>

Remove(id) ==
    /\ CanLock
    /\ tasks' = [i \in DOMAIN tasks \ {id} |-> tasks[i]]
    /\ UNCHANGED <<taskSeq, running, transient, lastLineCount, ticker,
                   stopClosed, readers, pc, todo, lineCount, clearI, cur,
                   screen, cursorHidden, now, nTicks, nStarts, panicked,
                   returned, nCalls, lastCall, snap, repainted, lim, hist, aloneVars>>

\* ------------------------------------------------------------ Start
\* if p.running { return }
StartIsNoOp_Unchecked(r) == FALSE

StartIsNoOp(r) == r

\* lines under p.mu: if p.running return; p.running = true
StartBegin(t) ==
    /\ pc[t] = "idle"
    /\ t \in lim.callers
    /\ CanLock
    /\ IF StartIsNoOp(running)
       THEN /\ "start" \in lim.trace => hist.idleStarts < MaxNoOps
            /\ hist' = IF "start" \in lim.trace
                       THEN [hist EXCEPT !.idleStarts = @ + 1]
                       ELSE hist
            /\ UNCHANGED <<running, nStarts, pc>>
       ELSE /\ nStarts < lim.starts
            /\ running' = TRUE
            /\ nStarts' = nStarts + 1
            /\ pc' = [pc EXCEPT ![t] = "start_hide"]
            /\ UNCHANGED hist
    /\ UNCHANGED <<tasks, taskSeq, transient, lastLineCount, ticker,
                   stopClosed, readers, todo, lineCount, clearI, cur, screen,
                   cursorHidden, now, nTicks, panicked, returned, nCalls,
                   lastCall, snap, repainted, lim, aloneVars>>

\* fmt.Fprint(p.writer, hideCursor)
StartHide(t) ==
    /\ pc[t] = "start_hide"
    /\ ~panicked
    /\ cursorHidden' = TRUE
    /\ pc' = [pc EXCEPT ![t] = "start_ticker"]
    /\ hist' = IF "start" \in lim.trace THEN [hist EXCEPT !.hides = @ + 1] ELSE hist
    /\ UNCHANGED <<tasks, taskSeq, running, transient, lastLineCount, ticker,
                   stopClosed, readers, todo, lineCount, clearI, cur, screen,
                   now, nTicks, nStarts, panicked, returned, nCalls, lastCall,
                   snap, repainted, lim, aloneVars>>

\* p.ticker = time.NewTicker(p.refreshRate)
StartTicker(t) ==
    /\ pc[t] = "start_ticker"
    /\ ~panicked
    /\ ticker' = [set |-> TRUE, armed |-> TRUE, pending |-> FALSE]
    /\ pc' = [pc EXCEPT ![t] = "start_go"]
    /\ hist' = IF "start" \in lim.trace THEN [hist EXCEPT !.timers = @ + 1] ELSE hist
    /\ UNCHANGED <<tasks, taskSeq, running, transient, lastLineCount,
                   stopClosed, readers, todo, lineCount, clearI, cur, screen,
                   cursorHidden, now, nTicks, nStarts, panicked, returned,
                   nCalls, lastCall, snap, repainted, lim, aloneVars>>

\* go p.renderLoop()
StartGo(t) ==
    /\ pc[t] = "start_go"
    /\ ~panicked
    /\ LET l == CHOOSE x \in Loops :
                  pc[x] = "none" /\ \A y \in Loops : pc[y] = "none" => x <= y
       IN  pc' = [pc EXCEPT ![t] = "idle", ![l] = "select"]
    /\ UNCHANGED <<tasks, taskSeq, running, transient, lastLineCount, ticker,
                   stopClosed, readers, todo, lineCount, clearI, cur, screen,
                   cursorHidden, now, nTicks, nStarts, panicked, returned,
                   nCalls, lastCall, snap, repainted, lim, hist, aloneVars>>

\* ------------------------------------------------------------ Stop
\* if !p.running { return }
StopIsNoOp_Unchecked(r) == FALSE

StopIsNoOp(r) == ~r

\* lines under p.mu: if !p.running return; p.running = false
StopBegin(t) ==
    /\ pc[t] = "idle"
    /\ t \in lim.callers
    /\ CanLock
    /\ IF StopIsNoOp(running)
       THEN /\ "stop" \in lim.trace => hist.idleStops < MaxNoOps
            /\ hist' = IF "stop" \in lim.trace
                       THEN [hist EXCEPT !.idleStops = @ + 1]
                       ELSE hist
            /\ UNCHANGED <<running, pc>>
       ELSE /\ running' = FALSE
            /\ pc' = [pc EXCEPT ![t] = "stop_ticker"]
            /\ hist' = IF "stop" \in lim.trace
                       THEN [hist EXCEPT !.stopRun[t] = nStarts]
                       ELSE hist
    /\ UNCHANGED <<tasks, taskSeq, transient, lastLineCount, ticker,
                   stopClosed, readers, todo, lineCount, clearI, cur, screen,
                   cursorHidden, now, nTicks, nStarts, panicked, returned,
                   nCalls, lastCall, snap, repainted, lim, aloneVars>>

\* if p.ticker != nil { p.ticker.Stop() }
StopTicker(t) ==
    /\ pc[t] = "stop_ticker"
    /\ ~panicked
    /\ IF ~ticker.set
       THEN ticker' = ticker
       ELSE ticker' = [ticker EXCEPT !.armed = FALSE]
    /\ pc' = [pc EXCEPT ![t] = "stop_close"]
    /\ UNCHANGED <<tasks, taskSeq, running, transient, lastLineCount,
                   stopClosed, readers, todo, lineCount, clearI, cur, screen,
                   cursorHidden, now, nTicks, nStarts, panicked, returned,
                   nCalls, lastCall, snap, repainted, lim, hist, aloneVars>>

\* close(p.stopChan), which panics on a closed channel;
\* then if p.transient { p.clear() } else { p.render(); ... }
StopClose(t) ==
    /\ pc[t] = "stop_close"
    /\ ~panicked
    /\ IF stopClosed
       THEN /\ panicked' = TRUE
            /\ pc' = [pc EXCEPT ![t] = "panic"]
            /\ UNCHANGED <<stopClosed, hist>>
       ELSE /\ stopClosed' = TRUE
            /\ pc' = [pc EXCEPT ![t] = IF transient THEN "clear_check"
                                                   ELSE "r_begin"]
            /\ hist' = IF "stop" \in lim.trace
                       THEN [hist EXCEPT !.finals[hist.stopRun[t]] = @ + 1]
                       ELSE hist
            /\ UNCHANGED panicked
    /\ UNCHANGED <<tasks, taskSeq, running, transient, lastLineCount, ticker,
                   readers, todo, lineCount, clearI, cur, screen,
                   cursorHidden, now, nTicks, nStarts, returned, nCalls,
                   lastCall, snap, repainted, lim, aloneVars>>

\* fmt.Fprintln(p.writer)
StopNewline(t) ==
    /\ pc[t] = "stop_newline"
    /\ ~panicked
    /\ cur' = cur + 1
    /\ pc' = [pc EXCEPT ![t] = "stop_show"]
    /\ UNCHANGED <<tasks, taskSeq, running, transient, lastLineCount, ticker,
                   stopClosed, readers, todo, lineCount, clearI, screen,
                   cursorHidden, now, nTicks, nStarts, panicked, returned,
                   nCalls, lastCall, snap, repainted, lim, hist, aloneVars>>

\* fmt.Fprint(p.writer, showCursor)
StopShow(t) ==
    /\ pc[t] = "stop_show"
    /\ ~panicked
    /\ cursorHidden' = FALSE
    /\ pc' = [pc EXCEPT ![t] = "idle"]
    /\ hist' = IF "stop" \in lim.trace
               THEN [hist EXCEPT !.shows[hist.stopRun[t]] = @ + 1,
                                 !.stopped = @ \cup {hist.stopRun[t]}]
               ELSE hist
    /\ UNCHANGED <<tasks, taskSeq, running, transient, lastLineCount, ticker,
                   stopClosed, readers, todo, lineCount, clearI, cur, screen,
                   now, nTicks, nStarts, panicked, returned, nCalls, lastCall,
                   snap, repainted, lim, aloneVars>>

\* ------------------------------------------------------------ render
\* p.mu.RLock(); if len(p.tasks) == 0 { return }
RenderBegin(t) ==
    /\ pc[t] = "r_begin"
    /\ ~panicked
    /\ IF DOMAIN tasks = {}
       THEN /\ pc' = [pc EXCEPT ![t] = Ret(t)]
            /\ repainted' = IF t \in Loops
                            THEN repainted \cup ((1..taskSeq) \ DOMAIN tasks)
                            ELSE repainted
            /\ hist' = IF "sink" \in lim.trace
                       THEN [hist EXCEPT !.painted = 0]
                       ELSE hist
            /\ UNCHANGED <<readers, todo, lineCount, snap>>
       ELSE /\ readers' = readers \cup {t}
            /\ hist' = IF lim.faults
                       THEN [hist EXCEPT !.failed[t] = FALSE]
                       ELSE hist
            /\ todo' = [todo EXCEPT ![t] = DOMAIN tasks]
            /\ lineCount' = [lineCount EXCEPT ![t] = 0]
            /\ snap' = [snap EXCEPT ![t] = IF t \in Loops
                                           THEN (1..taskSeq) \ DOMAIN tasks
                                           ELSE {}]
            /\ pc' = [pc EXCEPT ![t] = "r_up"]
            /\ UNCHANGED repainted
    /\ UNCHANGED <<tasks, taskSeq, running, transient, lastLineCount, ticker,
                   stopClosed, clearI, cur, screen, cursorHidden, now, nTicks,
                   nStarts, panicked, returned, nCalls, lastCall, lim, aloneVars>>

\* if p.lastLineCount > 0 { fmt.Fprintf(p.writer, cursorUp, p.lastLineCount) }
\* (the error Fprintf returns is dropped)
RenderUp(t) ==
    /\ pc[t] = "r_up"
    /\ ~panicked
    /\ \E ok \in (IF lim.faults /\ lastLineCount > 0 THEN BOOLEAN ELSE {TRUE}) :
          /\ cur' = IF lastLineCount > 0 /\ ok
                    THEN CursorUp(cur, lastLineCount) ELSE cur
          /\ hist' = IF lim.faults
                     THEN [hist EXCEPT !.failed[t] = @ \/ ~ok]
                     ELSE hist
    /\ pc' = [pc EXCEPT ![t] = "r_paint"]
    /\ UNCHANGED <<tasks, taskSeq, running, transient, lastLineCount, ticker,
                   stopClosed, readers, todo, lineCount, clearI, screen,
                   cursorHidden, now, nTicks, nStarts, panicked, returned,
                   nCalls, lastCall, snap, repainted, lim, aloneVars>>

\* one iteration of "for _, task := range p.tasks" (map order is arbitrary);
\* the errors of its three writes are dropped
RenderTask(t, id) ==
    /\ pc[t] = "r_paint"
    /\ ~panicked
    /\ id \in todo[t]
    /\ \E ok \in (IF lim.faults THEN SUBSET Writes ELSE {Writes}) :
          /\ screen' = WriteSome(screen, cur, id, ok)
          /\ cur' = IF "newline" \in ok THEN cur + 1 ELSE cur
          /\ lineCount' = [lineCount EXCEPT ![t] = LineCountAfter(@, ok)]
          /\ hist' = [(IF "paint" \in lim.trace
                        THEN [hist EXCEPT
                                !.wrote = [id |-> id,
                                           value |-> tasks[id].bar.current,
                                           frame |-> tasks[id].frameIndex,
                                           n |-> hist.upd[id].n],
                                !.upd[id].n = 0,
                                !.paintedDone = IF tasks[id].completed
                                                THEN @ \cup {id} ELSE @]
                        ELSE hist)
                      EXCEPT !.failed[t] = @ \/ ok # Writes]
    /\ todo' = [todo EXCEPT ![t] = @ \ {id}]
    /\ UNCHANGED <<tasks, taskSeq, running, transient, lastLineCount, ticker,
                   stopClosed, readers, pc, clearI, cursorHidden, now, nTicks,
                   nStarts, panicked, returned, nCalls, lastCall, snap,
                   repainted, lim, aloneVars>>

\* p.lastLineCount = lineCount; p.mu.RUnlock()
RenderEnd(t) ==
    /\ pc[t] = "r_paint"
    /\ ~panicked
    /\ todo[t] = {}
    /\ lastLineCount' = lineCount[t]
    /\ readers' = RUnlock(readers, t)
    /\ repainted' = repainted \cup snap[t]
    /\ snap' = [snap EXCEPT ![t] = {}]
    /\ lineCount' = [lineCount EXCEPT ![t] = 0]
    /\ pc' = [pc EXCEPT ![t] = Ret(t)]
    /\ hist' = IF "sink" \in lim.trace
               THEN [hist EXCEPT !.painted = lineCount[t]]
               ELSE hist
    /\ UNCHANGED <<tasks, taskSeq, running, transient, ticker, stopClosed,
                   todo, clearI, cur, screen, cursorHidden, now, nTicks,
                   nStarts, panicked, returned, nCalls, lastCall, lim, aloneVars>>

\* ------------------------------------------------------------ clear
\* if p.lastLineCount == 0 { return }
ClearCheck(t) ==
    /\ pc[t] = "clear_check"
    /\ ~panicked
    /\ pc' = [pc EXCEPT ![t] = IF lastLineCount = 0 THEN "stop_show"
                                                     ELSE "clear_up"]
    /\ UNCHANGED <<tasks, taskSeq, running, transient, lastLineCount, ticker,
                   stopClosed, readers, todo, lineCount, clearI, cur, screen,
                   cursorHidden, now, nTicks, nStarts, panicked, returned,
                   nCalls, lastCall, snap, repainted, lim, hist, aloneVars>>

\* fmt.Fprintf(p.writer, cursorUp, p.lastLineCount); i := 0
ClearUp(t) ==
    /\ pc[t] = "clear_up"
    /\ ~panicked
    /\ cur' = CursorUp(cur, lastLineCount)
    /\ clearI' = [clearI EXCEPT ![t] = 0]
    /\ pc' = [pc EXCEPT ![t] = "clear_loop"]
    /\ UNCHANGED <<tasks, taskSeq, running, transient, lastLineCount, ticker,
                   stopClosed, readers, todo, lineCount, screen, cursorHidden,
                   now, nTicks, nStarts, panicked, returned, nCalls, lastCall,
                   snap, repainted, lim, hist, aloneVars>>

\* for i < p.lastLineCount { Fprintf("%s%s\n", cursorLeft, clearLine); i++ }
ClearLine(t) ==
    /\ pc[t] = "clear_loop"
    /\ ~panicked
    /\ IF clearI[t] < lastLineCount
       THEN /\ screen' = WriteLine(screen, cur, Blank)
            /\ cur' = cur + 1
            /\ clearI' = [clearI EXCEPT ![t] = @ + 1]
            /\ UNCHANGED pc
       ELSE /\ pc' = [pc EXCEPT ![t] = "clear_back"]
            /\ clearI' = [clearI EXCEPT ![t] = 0]
            /\ UNCHANGED <<screen, cur>>
    /\ UNCHANGED <<tasks, taskSeq, running, transient, lastLineCount, ticker,
                   stopClosed, readers, todo, lineCount, cursorHidden, now,
                   nTicks, nStarts, panicked, returned, nCalls, lastCall,
                   snap, repainted, lim, hist, aloneVars>>

\* fmt.Fprintf(p.writer, cursorUp, p.lastLineCount)
ClearBack(t) ==
    /\ pc[t] = "clear_back"
    /\ ~panicked
    /\ cur' = CursorUp(cur, lastLineCount)
    /\ pc' = [pc EXCEPT ![t] = "clear_reset"]
    /\ UNCHANGED <<tasks, taskSeq, running, transient, lastLineCount, ticker,
                   stopClosed, readers, todo, lineCount, clearI, screen,
                   cursorHidden, now, nTicks, nStarts, panicked, returned,
                   nCalls, lastCall, snap, repainted, lim, hist, aloneVars>>

\* p.lastLineCount = 0
ClearReset(t) ==
    /\ pc[t] = "clear_reset"
    /\ ~panicked
    /\ lastLineCount' = 0
    /\ pc' = [pc EXCEPT ![t] = "stop_show"]
    /\ UNCHANGED <<tasks, taskSeq, running, transient, ticker, stopClosed,
                   readers, todo, lineCount, clearI, cur, screen,
                   cursorHidden, now, nTicks, nStarts, panicked, returned,
                   nCalls, lastCall, snap, repainted, lim, hist, aloneVars>>

\* ------------------------------------------------------------ ticker
\* the runtime timer sends on ticker.C (capacity 1; a tick that finds the
\* buffer full is dropped)
TimerFire ==
    /\ ~panicked
    /\ ticker.set
    /\ ticker.armed
    /\ ~ticker.pending
    /\ nTicks < lim.ticks
    /\ ticker' = [ticker EXCEPT !.pending = TRUE]
    /\ nTicks' = nTicks + 1
    /\ now' = now + 1
    /\ UNCHANGED <<tasks, taskSeq, running, transient, lastLineCount,
                   stopClosed, readers, pc, todo, lineCount, clearI, cur,
                   screen, cursorHidden, nStarts, panicked, returned, nCalls,
                   lastCall, snap, repainted, lim, hist, aloneVars>>

\* ------------------------------------------------------------ renderLoop
\* select: case <-p.ticker.C
LoopTick(l) ==
    /\ pc[l] = "select"
    /\ ~panicked
    /\ ticker.set
    /\ ticker.pending
    /\ ticker' = [ticker EXCEPT !.pending = FALSE]
    /\ pc' = [pc EXCEPT ![l] = "advance"]
    /\ UNCHANGED <<tasks, taskSeq, running, transient, lastLineCount,
                   stopClosed, readers, todo, lineCount, clearI, cur, screen,
                   cursorHidden, now, nTicks, nStarts, panicked, returned,
                   nCalls, lastCall, snap, repainted, lim, hist, aloneVars>>

\* select: case <-p.stopChan: return
LoopStop(l) ==
    /\ pc[l] = "select"
    /\ ~panicked
    /\ stopClosed
    /\ pc' = [pc EXCEPT ![l] = "exited"]
    /\ UNCHANGED <<tasks, taskSeq, running, transient, lastLineCount, ticker,
                   stopClosed, readers, todo, lineCount, clearI, cur, screen,
                   cursorHidden, now, nTicks, nStarts, panicked, returned,
                   nCalls, lastCall, snap, repainted, lim, hist, aloneVars>>

\* p.advanceSpinners(), all of it under p.mu.Lock()
AdvanceSpinners(l) ==
    /\ pc[l] = "advance"
    /\ CanLock
    /\ tasks' = [i \in DOMAIN tasks |->
                   IF tasks[i].kind = "spinner"
                   THEN [tasks[i] EXCEPT !.frameIndex = SpinnerNext(@)]
                   ELSE tasks[i]]
    /\ pc' = [pc EXCEPT ![l] = "r_begin"]
    /\ UNCHANGED <<taskSeq, running, transient, lastLineCount, ticker,
                   stopClosed, readers, todo, lineCount, clearI, cur, screen,
                   cursorHidden, now, nTicks, nStarts, panicked, returned,
                   nCalls, lastCall, snap, repainted, lim, hist, aloneVars>>

\* ------------------------------------------------------------ Next
Next ==
    \/ \E total \in EngTotals : Add(total)
    \/ AddSpinnerWithStyle
    \/ \E id \in Ids, value \in EngValues : Update(id, value)
    \/ \E id \in Ids, delta \in EngDeltas : AdvanceTask(id, delta)
    \/ \E id \in Ids : Complete(id)
    \/ \E id \in Ids : Remove(id)
    \/ \E t \in Callers : StartBegin(t)
    \/ \E t \in Callers : StartHide(t)
    \/ \E t \in Callers : StartTicker(t)
    \/ \E t \in Callers : StartGo(t)
    \/ \E t \in Callers : StopBegin(t)
    \/ \E t \in Callers : StopTicker(t)
    \/ \E t \in Callers : StopClose(t)
    \/ \E t \in Callers : StopNewline(t)
    \/ \E t \in Callers : StopShow(t)
    \/ \E t \in Threads : RenderBegin(t)
    \/ \E t \in Threads : RenderUp(t)
    \/ \E t \in Threads, id \in Ids : RenderTask(t, id)
    \/ \E t \in Threads : RenderEnd(t)
    \/ \E t \in Callers : ClearCheck(t)
    \/ \E t \in Callers : ClearUp(t)
    \/ \E t \in Callers : ClearLine(t)
    \/ \E t \in Callers : ClearBack(t)
    \/ \E t \in Callers : ClearReset(t)
    \/ TimerFire
    \/ \E l \in Loops : LoopTick(l)
    \/ \E l \in Loops : LoopStop(l)
    \/ \E l \in Loops : AdvanceSpinners(l)

Spec == Init /\ [][Next]_vars

\* ------------------------------------------------------------ registry scenario
\* The registry under load: every kind of registration and update call, one
\* Start, the tick loop and its repaints; Stop is not called.
RegInit ==
    /\ EngineInit
    /\ transient = FALSE
    /\ lim = [adds |-> MaxAdds, ticks |-> 1, starts |-> 1, calls |-> MaxCalls,
              callers |-> {-1}, totals |-> {2}, values |-> EngValues,
              deltas |-> EngDeltas, complete |-> {}, history |-> TRUE, trace |-> {},
              faults |-> FALSE]
    /\ AloneIdle

RegNext ==
    \/ \E total \in EngTotals : Add(total)
    \/ AddSpinnerWithStyle
    \/ \E id \in Ids, value \in EngValues : Update(id, value)
    \/ \E id \in Ids, delta \in EngDeltas : AdvanceTask(id, delta)
    \/ \E id \in Ids : Remove(id)
    \/ \E t \in Callers : StartBegin(t)
    \/ \E t \in Callers : StartHide(t)
    \/ \E t \in Callers : StartTicker(t)
    \/ \E t \in Callers : StartGo(t)
    \/ \E t \in Loops : RenderBegin(t)
    \/ \E t \in Loops : RenderUp(t)
    \/ \E t \in Loops, id \in Ids : RenderTask(t, id)
    \/ \E t \in Loops : RenderEnd(t)
    \/ TimerFire
    \/ \E l \in Loops : LoopTick(l)
    \/ \E l \in Loops : AdvanceSpinners(l)

SpecReg == RegInit /\ [][RegNext]_vars

\* ------------------------------------------------------------ repaint scenario
\* A running engine whose tasks are updated, advanced, completed and removed
\* while the tick loop repaints them; Stop is not called.
PaintInit ==
    /\ EngineInit
    /\ transient = FALSE
    /\ lim = [adds |-> 2, ticks |-> 2, starts |-> 1,
              calls |-> 2, callers |-> {-1}, totals |-> {2},
              values |-> {1}, deltas |-> {1}, complete |-> {0, 1},
              history |-> FALSE, trace |-> {"paint"},
              faults |-> FALSE]
    /\ AloneIdle

PaintNext ==
    \/ \E total \in EngTotals : Add(total)
    \/ AddSpinnerWithStyle
    \/ \E id \in Ids, value \in EngValues : Update(id, value)
    \/ \E id \in Ids, delta \in EngDeltas : AdvanceTask(id, delta)
    \/ \E id \in Ids : Complete(id)
    \/ \E id \in Ids : Remove(id)
    \/ \E t \in Callers : StartBegin(t)
    \/ \E t \in Callers : StartHide(t)
    \/ \E t \in Callers : StartTicker(t)
    \/ \E t \in Callers : StartGo(t)
    \/ \E t \in Loops : RenderBegin(t)
    \/ \E t \in Loops : RenderUp(t)
    \/ \E t \in Loops, id \in Ids : RenderTask(t, id)
    \/ \E t \in Loops : RenderEnd(t)
    \/ TimerFire
    \/ \E l \in Loops : LoopTick(l)
    \/ \E l \in Loops : AdvanceSpinners(l)

SpecPaint == PaintInit /\ [][PaintNext]_vars

\* ------------------------------------------------------------ start scenario
\* Two callers call Start, in sequence and concurrently, on an engine that
\* is never stopped.
StartInit ==
    /\ EngineInit
    /\ transient = FALSE
    /\ lim = [adds |-> 1, ticks |-> MaxTicks, starts |-> MaxStarts,
              calls |-> 0, callers |-> Callers, totals |-> {2},
              values |-> {}, deltas |-> {}, complete |-> {},
              history |-> FALSE, trace |-> {"start"},
              faults |-> FALSE]
    /\ AloneIdle

StartNext ==
    \/ \E total \in EngTotals : Add(total)
    \/ AddSpinnerWithStyle
    \/ \E t \in Callers : StartBegin(t)
    \/ \E t \in Callers : StartHide(t)
    \/ \E t \in Callers : StartTicker(t)
    \/ \E t \in Callers : StartGo(t)
    \/ \E t \in Loops : RenderBegin(t)
    \/ \E t \in Loops : RenderUp(t)
    \/ \E t \in Loops, id \in Ids : RenderTask(t, id)
    \/ \E t \in Loops : RenderEnd(t)
    \/ TimerFire
    \/ \E l \in Loops : LoopTick(l)
    \/ \E l \in Loops : AdvanceSpinners(l)

SpecStart == StartInit /\ [][StartNext]_vars

\* ------------------------------------------------------------ lifecycle scenario
\* Two callers call Start and Stop in any order and at any time, restarts
\* included, on a transient or a persistent engine.
LifeInit ==
    /\ EngineInit
    /\ lim = [adds |-> 1, ticks |-> 1, starts |-> MaxStarts,
              calls |-> 0, callers |-> Callers, totals |-> {2},
              values |-> {}, deltas |-> {}, complete |-> {},
              history |-> FALSE, trace |-> {"stop"},
              faults |-> FALSE]
    /\ AloneIdle

LifeNext ==
    \/ \E total \in EngTotals : Add(total)
    \/ AddSpinnerWithStyle
    \/ \E t \in Callers : StartBegin(t)
    \/ \E t \in Callers : StartHide(t)
    \/ \E t \in Callers : StartTicker(t)
    \/ \E t \in Callers : StartGo(t)
    \/ \E t \in Callers : StopBegin(t)
    \/ \E t \in Callers : StopTicker(t)
    \/ \E t \in Callers : StopClose(t)
    \/ \E t \in Callers : StopNewline(t)
    \/ \E t \in Callers : StopShow(t)
    \/ \E t \in Threads : RenderBegin(t)
    \/ \E t \in Threads : RenderUp(t)
    \/ \E t \in Threads, id \in Ids : RenderTask(t, id)
    \/ \E t \in Threads : RenderEnd(t)
    \/ \E t \in Callers : ClearCheck(t)
    \/ \E t \in Callers : ClearUp(t)
    \/ \E t \in Callers : ClearLine(t)
    \/ \E t \in Callers : ClearBack(t)
    \/ \E t \in Callers : ClearReset(t)
    \/ TimerFire
    \/ \E l \in Loops : LoopTick(l)
    \/ \E l \in Loops : LoopStop(l)
    \/ \E l \in Loops : AdvanceSpinners(l)

SpecLife == LifeInit /\ [][LifeNext]_vars

\* ------------------------------------------------------------ tick scenario
\* One run of a persistent engine, from Start to Stop, while tasks are
\* added, updated, advanced, completed and removed and the ticker fires.
TickInit ==
    /\ EngineInit
    /\ transient = FALSE
    /\ lim = [adds |-> 2, ticks |-> 2, starts |-> 1,
              calls |-> 1, callers |-> {-1}, totals |-> {2},
              values |-> {1}, deltas |-> {1}, complete |-> {1},
              history |-> FALSE, trace |-> {},
              faults |-> FALSE]
    /\ AloneIdle

TickNext ==
    \/ \E total \in EngTotals : Add(total)
    \/ AddSpinnerWithStyle
    \/ \E id \in Ids, value \in EngValues : Update(id, value)
    \/ \E id \in Ids, delta \in EngDeltas : AdvanceTask(id, delta)
    \/ \E id \in Ids : Complete(id)
    \/ \E id \in Ids : Remove(id)
    \/ \E t \in Callers : StartBegin(t)
    \/ \E t \in Callers : StartHide(t)
    \/ \E t \in Callers : StartTicker(t)
    \/ \E t \in Callers : StartGo(t)
    \/ \E t \in Callers : StopBegin(t)
    \/ \E t \in Callers : StopTicker(t)
    \/ \E t \in Callers : StopClose(t)
    \/ \E t \in Callers : StopNewline(t)
    \/ \E t \in Callers : StopShow(t)
    \/ \E t \in Threads : RenderBegin(t)
    \/ \E t \in Threads : RenderUp(t)
    \/ \E t \in Threads, id \in Ids : RenderTask(t, id)
    \/ \E t \in Threads : RenderEnd(t)
    \/ TimerFire
    \/ \E l \in Loops : LoopTick(l)
    \/ \E l \in Loops : LoopStop(l)
    \/ \E l \in Loops : AdvanceSpinners(l)

SpecTick == TickInit /\ [][TickNext]_vars

\* ------------------------------------------------------------ fault scenario
\* A running engine repaints its tasks, which come and go, on a sink any
\* write to which may fail; Stop is not called.
FaultInit ==
    /\ EngineInit
    /\ transient = FALSE
    /\ lim = [adds |-> 2, ticks |-> 2, starts |-> 1,
              calls |-> 0, callers |-> {-1}, totals |-> {2},
              values |-> {}, deltas |-> {}, complete |-> {},
              history |-> FALSE, trace |-> {},
              faults |-> TRUE]
    /\ AloneIdle

FaultNext ==
    \/ \E total \in EngTotals : Add(total)
    \/ AddSpinnerWithStyle
    \/ \E id \in Ids : Remove(id)
    \/ \E t \in Callers : StartBegin(t)
    \/ \E t \in Callers : StartHide(t)
    \/ \E t \in Callers : StartTicker(t)
    \/ \E t \in Callers : StartGo(t)
    \/ \E t \in Loops : RenderBegin(t)
    \/ \E t \in Loops : RenderUp(t)
    \/ \E t \in Loops, id \in Ids : RenderTask(t, id)
    \/ \E t \in Loops : RenderEnd(t)
    \/ TimerFire
    \/ \E l \in Loops : LoopTick(l)
    \/ \E l \in Loops : AdvanceSpinners(l)

SpecFault == FaultInit /\ [][FaultNext]_vars

\* ------------------------------------------------------------ sink scenario
\* A started engine of up to two tasks that are added and removed between
\* three ticks; the lines each render call painted are recorded.
SinkInit ==
    /\ EngineInit
    /\ transient = FALSE
    /\ lim = [adds |-> 2, ticks |-> 3, starts |-> 1,
              calls |-> 0, callers |-> {-1}, totals |-> {2},
              values |-> {}, deltas |-> {}, complete |-> {},
              history |-> FALSE, trace |-> {"sink"},
              faults |-> FALSE]
    /\ AloneIdle

SinkNext ==
    \/ \E total \in EngTotals : Add(total)
    \/ AddSpinnerWithStyle
    \/ \E id \in Ids : Remove(id)
    \/ \E t \in Callers : StartBegin(t)
    \/ \E t \in Callers : StartHide(t)
    \/ \E t \in Callers : StartTicker(t)
    \/ \E t \in Callers : StartGo(t)
    \/ \E t \in Loops : RenderBegin(t)
    \/ \E t \in Loops : RenderUp(t)
    \/ \E t \in Loops, id \in Ids : RenderTask(t, id)
    \/ \E t \in Loops : RenderEnd(t)
    \/ TimerFire
    \/ \E l \in Loops : LoopTick(l)
    \/ \E l \in Loops : AdvanceSpinners(l)

SpecSink == SinkInit /\ [][SinkNext]_vars

\* ------------------------------------------------------------ call scenario
\* Every operation of the engine, in any order: one task that is added,
\* updated, advanced, completed and removed while the engine is never
\* started, running, stopped or started again, persistent or transient.
CallInit ==
    /\ EngineInit
    /\ lim = [adds |-> 1, ticks |-> 2, starts |-> 2,
              calls |-> 1, callers |-> {-1}, totals |-> {2},
              values |-> {1}, deltas |-> {1}, complete |-> {1},
              history |-> FALSE, trace |-> {},
              faults |-> FALSE]
    /\ AloneIdle

\* the steps render takes while it holds p.mu.RLock(); none of them waits
\* for a lock, a channel or a timer
RenderHolding(t) ==
    \/ RenderUp(t)
    \/ \E id \in Ids : RenderTask(t, id)
    \/ RenderEnd(t)

\* A goroutine that is inside render keeps running; nothing is assumed about
\* the timer, the tick loop's select or the callers.
SpecCall ==
    /\ CallInit
    /\ [][Next]_vars
    /\ \A t \in Threads : WF_vars(RenderHolding(t))

\* ------------------------------------------------------------ bar scenario
\* A stand-alone ProgressBar of any total, driven with any arguments.
BarInit ==
    /\ EngineIdle
    /\ DrawIdle
    /\ SpinIdle
    /\ TrackerIdle
    /\ \E total \in IntRange :
          /\ pb = NewBar(total)
          /\ pbOp = [op |-> "NewBar", arg |-> total, before |-> 0]

PbSetProgress(v) ==
    /\ Len(pb.samples) < MaxBarCalls
    /\ pb' = SetProgress(pb, v, now)
    /\ pbOp' = [op |-> "SetProgress", arg |-> v, before |-> pb.current]
    /\ UNCHANGED <<engineVars, spinVars, trackerVars, drawVars>>

PbAdvance(d) ==
    /\ Len(pb.samples) < MaxBarCalls
    /\ pb' = Advance(pb, d, now)
    /\ pbOp' = [op |-> "Advance", arg |-> d, before |-> pb.current]
    /\ UNCHANGED <<engineVars, spinVars, trackerVars, drawVars>>

BarNext ==
    \/ \E v \in IntRange : PbSetProgress(v)
    \/ \E d \in IntRange : PbAdvance(d)

SpecBar == BarInit /\ [][BarNext]_vars

\* ------------------------------------------------------------ spinner scenario
\* A stand-alone Spinner built from a frame list of any length, stepped on.
SpinInit ==
    /\ EngineIdle
    /\ DrawIdle
    /\ BarIdle
    /\ TrackerIdle
    /\ \E n \in 0..MaxFrames :
          /\ sp = NewSpinner(n)
          /\ spTrail = <<0>>

\* s.Next(); the trail keeps the last len(frames) + 1 frame indices
SpNext ==
    /\ sp' = SpinnerNextOf(sp)
    /\ spTrail' = LET a == Append(spTrail, sp'.frameIndex)
                  IN  IF Len(a) > sp.len + 1 THEN Tail(a) ELSE a
    /\ UNCHANGED <<engineVars, barVars, trackerVars, drawVars>>

SpinNext ==
    \/ SpNext

SpecSpin == SpinInit /\ [][SpinNext]_vars

\* ------------------------------------------------------------ tracker scenario
\* A stand-alone Tracker: values are recorded, it is reset, time passes.
TrackerInit ==
    /\ EngineIdle
    /\ DrawIdle
    /\ BarIdle
    /\ SpinIdle
    /\ TrackerIdle

\* t.update(value)
TkUpdate(value) ==
    /\ tkOps < MaxTrackerOps
    /\ tk' = TrackerUpdate(tk, now, value)
    /\ tkAll' = Append(tkAll, [timestamp |-> now, value |-> value])
    /\ tkSince' = tkSince + 1
    /\ tkOps' = tkOps + 1
    /\ UNCHANGED <<engineVars, barVars, spinVars, drawVars>>

\* t.Reset()
TkReset ==
    /\ tkOps < MaxTrackerOps
    /\ tk' = TrackerReset(tk)
    /\ tkSince' = 0
    /\ tkOps' = tkOps + 1
    /\ UNCHANGED <<engineVars, barVars, spinVars, drawVars, tkAll>>

\* d seconds pass
ClockStep(d) ==
    /\ tkOps < MaxTrackerOps
    /\ now' = now + d
    /\ tkOps' = tkOps + 1
    /\ UNCHANGED <<engineButNow, barVars, spinVars, drawVars, tk, tkAll, tkSince>>

TrackerNext ==
    \/ \E value \in TrackerValues : TkUpdate(value)
    \/ TkReset
    \/ \E d \in ClockSteps : ClockStep(d)

SpecTracker == TrackerInit /\ [][TrackerNext]_vars

\* ------------------------------------------------------------ window scenario
\* A fresh Tracker is fed one sample after the other, the i-th of value i.
\* t.update(int64(i))
TkUpdateNext ==
    /\ Len(tkAll) < MaxRecords
    /\ tk' = TrackerUpdate(tk, now, Len(tkAll))
    /\ tkAll' = Append(tkAll, [timestamp |-> now, value |-> Len(tkAll)])
    /\ tkSince' = tkSince + 1
    /\ UNCHANGED <<engineVars, barVars, spinVars, drawVars, tkOps>>

WindowNext ==
    \/ TkUpdateNext

SpecWindow == TrackerInit /\ [][WindowNext]_vars

\* ------------------------------------------------------------ render scenario
\* A stand-alone ProgressBar with or without a description and a configured
\* width is set to a value once and rendered into any available width.
DrawInit ==
    /\ EngineIdle
    /\ SpinIdle
    /\ TrackerIdle
    /\ \E total \in RenderTotals :
          /\ pb = NewBar(total)
          /\ pbOp = [op |-> "NewBar", arg |-> total, before |-> 0]
    /\ pbLook \in [description : DescLens, width : BarWidths]
    /\ pbDrawn = <<>>

\* bar.SetProgress(v), once
PbSetOnce(v) ==
    /\ pb.samples = <<>>
    /\ PbSetProgress(v)

\* bar.Render(console, width)
PbRender(width) ==
    /\ pbDrawn' = Render(pb, pbLook, width)
    /\ pbOp' = [op |-> "Render", arg |-> width, before |-> pb.current]
    /\ UNCHANGED <<engineVars, spinVars, trackerVars, pb, pbLook>>

DrawNext ==
    \/ \E v \in RenderValues : PbSetOnce(v)
    \/ \E width \in AvailWidths : PbRender(width)

SpecDraw == DrawInit /\ [][DrawNext]_vars

\* ============================================================ claims

\* every caller is back from Start/Stop and the last of them stopped the engine
Quiescent ==
    /\ nStarts > 0
    /\ ~running
    /\ \A t \in Callers : pc[t] = "idle"

\* positions inside render (past the lock) and inside clear
PaintPcs == {"r_up", "r_paint", "clear_up", "clear_loop", "clear_back", "clear_reset"}

\* C1: once Stop has returned, the tick loop advances no spinner, repaints
\* nothing and writes nothing to the sink.
C1_StopWaitsForLoop ==
    [][Quiescent =>
         /\ cur' = cur
         /\ screen' = screen
         /\ cursorHidden' = cursorHidden
         /\ lastLineCount' = lastLineCount
         /\ \A i \in DOMAIN tasks \cap DOMAIN tasks' :
               tasks'[i].frameIndex = tasks[i].frameIndex]_vars

\* C2: at most one goroutine is inside a repaint or the erase at any time.
C2_SingleWriter == Cardinality({t \in Threads : pc[t] \in PaintPcs}) <= 1

\* C3: after a transient Stop every line the engine painted is blank and the
\* cursor is back on the first progress line.
C3_TransientLeavesNoTrace ==
    (Quiescent /\ transient) =>
        /\ cur = 0
        /\ \A r \in DOMAIN screen : screen[r] = Blank

\* C4: once a tick's repaint that began after Remove(id) has completed, no
\* terminal line shows task id.
C4_RemovedTaskDisappears ==
    \A id \in repainted : \A r \in DOMAIN screen : screen[r] # id

\* C5: once progress output has begun, the cursor-up step of every repaint
\* and of the erase leaves the cursor on the first progress line.
C5_CursorUpLandsOnFirstLine ==
    [][\A t \in Threads :
         (\/ pc[t] = "r_up" /\ pc'[t] = "r_paint"
          \/ pc[t] = "clear_up" /\ pc'[t] = "clear_loop") =>
             (screen # <<>> => cur' = 0)]_vars

\* C6: when a repaint returns, lastLineCount is the number of tasks in the
\* registry at the moment it ran.
C6_LineCountIsTaskCount ==
    [][\A t \in Threads :
         (pc[t] \in {"r_begin", "r_paint"} /\ pc'[t] = Ret(t)) =>
             lastLineCount' = Cardinality(DOMAIN tasks)]_vars

\* C7: every id returned by an Add is greater than all ids returned before.
C7_IdsStrictlyIncrease ==
    \A j, k \in 1..Len(returned) : j < k => returned[j].id < returned[k].id

\* an id was handed out after an earlier task had been removed
C7_Witness ==
    \E k \in 2..Len(returned) :
        \E j \in 1..(k-1) : returned[j].id \notin returned[k].live

\* C8: a bar with total >= 0 always has 0 <= current <= total.
C8_CurrentWithinRange ==
    pb.total >= 0 => (0 <= pb.current /\ pb.current <= pb.total)

\* an Advance whose sum wrapped around has been clamped
C8_Witness ==
    /\ pbOp.op = "Advance"
    /\ pbOp.before + pbOp.arg > IntMax
    /\ pb.total > 0

Clamp(v, lo, hi) == IF v < lo THEN lo ELSE IF v > hi THEN hi ELSE v

\* equality of two quotients with non-zero denominators
RatEq(p, q) == p[2] # 0 /\ q[2] # 0 /\ p[1] * q[2] = q[1] * p[2]

\* C9: right after SetProgress(v), Percentage() is clamp(v, 0, total) / total
\* when total > 0, and 0 when total = 0.
C9_PercentageAfterSetProgress ==
    pbOp.op = "SetProgress" =>
        /\ pb.total > 0 =>
              RatEq(Percentage(pb), <<Clamp(pbOp.arg, 0, pb.total), pb.total>>)
        /\ pb.total = 0 => RatEq(Percentage(pb), <<0, 1>>)

\* SetProgress was called with a value above a positive total, and with a
\* total of zero
C9_Witness ==
    /\ pbOp.op = "SetProgress"
    /\ \/ pb.total > 0 /\ pbOp.arg > pb.total
       \/ pb.total = 0 /\ pbOp.arg > 0

\* C10: an Update or Advance whose id is unknown, removed or a spinner's
\* leaves the registry, every bar and tracker and lastLineCount unchanged.
C10_DroppedCallsChangeNothing ==
    [][(/\ nCalls' = nCalls + 1
        /\ ~(lastCall'.id \in DOMAIN tasks /\ tasks[lastCall'.id].kind = "bar"))
       => /\ tasks' = tasks
          /\ taskSeq' = taskSeq
          /\ lastLineCount' = lastLineCount]_vars

\* the latest call named a spinner of a registry that has been painted
C10_Witness ==
    /\ nCalls > 0
    /\ lastLineCount > 0
    /\ lastCall.id \in DOMAIN tasks
    /\ tasks[lastCall.id].kind = "spinner"

\* C11: Complete(id) sets only the completed flag of task id (and nothing at
\* all when id is unknown), and every repaint that ends while a completed
\* task is registered has painted that task.
C11_CompleteOnlySetsFlag ==
    [][/\ hist'.dones = hist.dones + 1 =>
            /\ DOMAIN tasks' = DOMAIN tasks
            /\ \A i \in DOMAIN tasks :
                  /\ tasks'[i].kind = tasks[i].kind
                  /\ tasks'[i].bar = tasks[i].bar
                  /\ tasks'[i].frameIndex = tasks[i].frameIndex
                  /\ tasks'[i].completed = (tasks[i].completed \/ i = hist'.lastDone)
            /\ UNCHANGED <<taskSeq, running, lastLineCount, cur, screen>>
       /\ \A t \in Loops :
            (pc[t] = "r_paint" /\ pc'[t] = Ret(t)) =>
                \A i \in DOMAIN tasks :
                    tasks[i].completed =>
                        \E r \in (cur - lineCount[t])..(cur - 1) :
                            r \in DOMAIN screen /\ screen[r] = i]_vars

\* a completed bar that had been updated was painted, and the latest
\* Complete named an id that is not registered
C11_Witness ==
    /\ \E i \in hist.paintedDone :
          i \in DOMAIN tasks /\ tasks[i].kind = "bar" /\ tasks[i].bar.current > 0
    /\ hist.dones > 1
    /\ hist.lastDone \notin DOMAIN tasks

\* C12: while Stop is not called, however many Start calls are made, the
\* hide-cursor sequence is written at most once, at most one ticker is
\* created and at most one tick loop exists; once the Start calls have
\* returned there is exactly one of each and the ticker is armed.
C12_StartTwiceIsNoOp ==
    /\ hist.hides <= 1
    /\ hist.timers <= 1
    /\ Cardinality({l \in Loops : pc[l] # "none"}) <= 1
    /\ (nStarts > 0 /\ \A t \in Callers : pc[t] = "idle") =>
          /\ hist.hides = 1
          /\ hist.timers = 1
          /\ ticker.armed
          /\ Cardinality({l \in Loops : pc[l] # "none"}) = 1

\* a second Start call has found the engine running while the first one,
\* having written hide-cursor and created the ticker, has yet to spawn the loop
C12_Witness ==
    /\ hist.idleStarts > 0
    /\ \E t \in Callers : pc[t] = "start_go"

\* C13: a Stop call that finds the engine not running changes nothing, and
\* in every run the final repaint or erase and the show-cursor sequence
\* happen at most once, and exactly once when the run's Stop has returned.
C13_StopTwiceIsNoOp ==
    /\ [](/\ hist.finals[0] = 0
          /\ hist.shows[0] = 0
          /\ \A k \in 1..MaxStarts :
               /\ hist.finals[k] <= 1
               /\ hist.shows[k] <= 1
               /\ k \in hist.stopped => (hist.finals[k] = 1 /\ hist.shows[k] = 1))
    /\ [][/\ \A t \in Callers :
               (pc[t] = "idle" /\ ~running) => pc'[t] # "stop_ticker"
          /\ hist'.idleStops = hist.idleStops + 1 =>
               UNCHANGED <<tasks, taskSeq, running, lastLineCount, ticker,
                           stopClosed, pc, cur, screen, cursorHidden>>]_vars

\* Stop calls have found the engine not running, and the Stop that found it
\* running is in its final repaint or erase
C13_Witness ==
    /\ hist.idleStops = MaxNoOps
    /\ nStarts > 0
    /\ \E t \in Callers : pc[t] \in {"r_paint", "clear_loop"}

\* C14: a spinner built by NewSpinner has a non-empty frame list and a valid
\* frame index after any number of Next calls; every Next moves one frame on,
\* wrapping to 0 after the last, and len(frames) calls in a row bring the
\* index back to where it was.
C14_SpinnerIsCyclic ==
    /\ sp.len > 0
    /\ sp.frameIndex \in 0..(sp.len - 1)
    /\ \A k \in 1..(Len(spTrail) - 1) :
          spTrail[k + 1] = IF spTrail[k] = sp.len - 1 THEN 0 ELSE spTrail[k] + 1
    /\ Len(spTrail) = sp.len + 1 => spTrail[Len(spTrail)] = spTrail[1]

\* a spinner built from an empty list has made a full round that began in
\* the middle of the default frames
C14_Witness ==
    /\ sp.given = 0
    /\ Len(spTrail) = NumFrames + 1
    /\ spTrail[1] > 0

\* C15: speed() is 0 as long as fewer than two samples were recorded since
\* the tracker was made or last reset.
C15_RateNeedsTwoSamples ==
    tkSince < 2 => Speed(tk, now)[1] = 0

\* one sample was recorded after a reset that wiped samples of a non-zero
\* speed
C15_Witness ==
    /\ tkSince = 1
    /\ Len(tkAll) > 2
    /\ Speed(SubSeq(tkAll, 1, Len(tkAll) - 1), now)[1] # 0

\* the duration a / b seconds, capped at 24 hours
CappedDuration(a, b) ==
    IF a > DayCap * b THEN DurationOf(DayCap, 1) ELSE DurationOf(a, b)

\* C16: eta(current, total) is 0 when current >= total and when speed() <= 0,
\* and otherwise (total - current) / speed(), capped at 24 hours; it never
\* exceeds 24 hours.
C16_EtaIsCappedQuotient ==
    \A current, total \in IntRange :
        LET e == Eta(tk, now, current, total)
            spd == Speed(tk, now)
        IN  /\ current >= total => e = DurationOf(0, 1)
            /\ spd[1] <= 0 => e = DurationOf(0, 1)
            /\ (current < total /\ spd[1] > 0) =>
                   e = CappedDuration((total - current) * spd[2], spd[1])
            /\ ~e.neg
            /\ e.sec < DayCap \/ (e.sec = DayCap /\ e.nanos = 0)

\* C17: after every record the window is the tail of everything recorded,
\* in order and ending with the sample just recorded, and a record into a
\* full window leaves exactly the 50 samples recorded last.
C17_WindowIsNewestSuffix ==
    /\ [](Len(tkAll) > 0 =>
            /\ Len(tk) > 0
            /\ tk = SubSeq(tkAll, Len(tkAll) - Len(tk) + 1, Len(tkAll)))
    /\ [][(Len(tk) = SampleCap /\ Len(tkAll') = Len(tkAll) + 1) =>
             tk' = SubSeq(tkAll', Len(tkAll') - SampleKeep + 1, Len(tkAll'))]_vars

\* C18: the window never holds more than 100 samples, and after 150 records
\* into a fresh tracker it holds 99 samples, the last of them the 150th.
C18_CapAndPruneCounts ==
    /\ Len(tk) <= SampleCap
    /\ Len(tkAll) = 150 =>
          /\ Len(tk) = 99
          /\ tk[Len(tk)] = tkAll[150]

\* 150 samples have been recorded
C18_Witness == Len(tkAll) = 150

\* C19: every line a repaint paints for a bar task shows the value the
\* latest Update or Advance call on that task left, however many calls were
\* made since the task was last painted.
C19_RepaintShowsLatestValue ==
    [][\A t \in Loops :
         lineCount'[t] = lineCount[t] + 1 =>
            LET w == hist'.wrote
                u == hist.upd[w.id]
                total == tasks[w.id].bar.total
            IN  (tasks[w.id].kind = "bar" /\ u.op # "none") =>
                    w.value = IF u.op = "Update"
                              THEN Clamp(u.arg, 0, total)
                              ELSE Clamp(u.before + u.arg, 0, total)]_vars

\* a line was painted for a bar that had been updated twice since it was
\* last painted, the first time to a value other than the one painted
C19_Witness ==
    /\ hist.wrote.n >= 2
    /\ hist.wrote.id \in DOMAIN tasks
    /\ hist.upd[hist.wrote.id].before \notin {0, hist.wrote.value}

\* C20 as stated: a task's tracker holds at most one sample per tick
\* interval, however many Update or Advance calls the interval saw.
C20_OneSamplePerTick ==
    \A i \in DOMAIN tasks :
        \A j, k \in 1..Len(tasks[i].bar.samples) :
            j < k => tasks[i].bar.samples[j].timestamp
                        # tasks[i].bar.samples[k].timestamp

\* C20 as amended: every Update or Advance call on a bar task whose window
\* is not full appends exactly one sample, the time of the call with the
\* value the call left, whether or not a tick came since the last call.
C20_OneSamplePerCall ==
    [][(/\ nCalls' = nCalls + 1
        /\ lastCall'.id \in DOMAIN tasks
        /\ tasks[lastCall'.id].kind = "bar"
        /\ Len(tasks[lastCall'.id].bar.samples) < SampleCap)
       => tasks'[lastCall'.id].bar.samples =
              Append(tasks[lastCall'.id].bar.samples,
                     [timestamp |-> now,
                      value |-> tasks'[lastCall'.id].bar.current])]_vars

\* a bar holds two samples of the same time, and the ticker has fired
C20_Witness ==
    \E i \in DOMAIN tasks :
        /\ Len(tasks[i].bar.samples) = 2
        /\ tasks[i].bar.samples[1].timestamp = tasks[i].bar.samples[2].timestamp
        /\ nTicks > 0

\* C29: no sequence of Start and Stop calls crashes the process: every Stop
\* call returns, the one after Start, Stop, Start included (the stop channel
\* is closed at most once).
C29_RestartNeverCrashes ==
    /\ ~panicked
    /\ \A t \in Callers : pc[t] # "panic"

\* C30: right after Advance(delta) with delta >= 0 on a bar with total >= 0,
\* current is min(current before + delta, total), the sum taken in the
\* integers (no wraparound), and so is not below the value before.
C30_AdvanceNeverLowers ==
    (pbOp.op = "Advance" /\ pbOp.arg >= 0 /\ pb.total >= 0) =>
        /\ pb.current = IF pbOp.before + pbOp.arg > pb.total
                        THEN pb.total
                        ELSE pbOp.before + pbOp.arg
        /\ pb.current >= pbOp.before

\* the samples that are no more than Window seconds old
Recent == SelectSeq(tk, LAMBDA x : now - x.timestamp <= Window)

RatioAtLeast(a, b) == pb.current * b >= a * pb.total

\* the segments of the latest Render that belong to part
DrawnAs(part) == SelectSeq(pbDrawn, LAMBDA g : g.part = part)

\* the digit a character stands for
DigitOf(ch) == CHOOSE d \in 0..9 : Digit(d) = ch

\* the number a run of decimal digits reads as
RECURSIVE Reads(_)
Reads(t) ==
    IF t = <<>> THEN 0
    ELSE 10 * Reads(SubSeq(t, 1, Len(t) - 1)) + DigitOf(t[Len(t)])

IsDigits(t) == t # <<>> /\ \A i \in 1..Len(t) : \E d \in 0..9 : t[i] = Digit(d)

\* a percentage text, " <digits>%" or " <digits>.<digit>%", and the tenths
\* of a percent it reads as
IsPercentText(t) ==
    /\ Len(t) >= 3
    /\ t[1] = " "
    /\ t[Len(t)] = "%"
    /\ \/ IsDigits(SubSeq(t, 2, Len(t) - 1))
       \/ /\ Len(t) >= 5
          /\ IsDigits(SubSeq(t, 2, Len(t) - 3))
          /\ t[Len(t) - 2] = "."
          /\ IsDigits(SubSeq(t, Len(t) - 1, Len(t) - 1))

TenthsOf(t) ==
    IF Len(t) >= 5 /\ t[Len(t) - 2] = "."
    THEN 10 * Reads(SubSeq(t, 2, Len(t) - 3)) + Reads(SubSeq(t, Len(t) - 1, Len(t) - 1))
    ELSE 10 * Reads(SubSeq(t, 2, Len(t) - 1))

\* C25: for a bar with total > 0 the last segment Render returns is the
\* percentage text; it is " 100%" exactly when current / total >= 0.99995,
\* and for every smaller ratio it is the ratio in percent to one decimal
\* place at most (no further than 0.05 from it) and reads below 100.
C25_HundredOnlyWhenComplete ==
    (pbOp.op = "Render" /\ pb.total > 0) =>
        LET last == pbDrawn[Len(pbDrawn)]
        IN  /\ Len(DrawnAs("percent")) = 1
            /\ last.part = "percent"
            /\ IsPercentText(last.text)
            /\ (last.text = <<" ", "1", "0", "0", "%">>) <=> RatioAtLeast(19999, 20000)
            /\ ~RatioAtLeast(19999, 20000) =>
                  /\ TenthsOf(last.text) < 1000
                  /\ 2 * (TenthsOf(last.text) * pb.total - 1000 * pb.current) <= pb.total
                  /\ 2 * (1000 * pb.current - TenthsOf(last.text) * pb.total) <= pb.total

\* the glyphs of the runs of the latest Render that belong to part
GlyphsOf(part) ==
    IF DrawnAs(part) = <<>> THEN 0 ELSE DrawnAs(part)[1].len

\* C26: for a bar with total > 0, Render returns at most one filled run and
\* at most one empty run, the filled one first; the filled run has
\* floor(bar_width * current / total) glyphs and the two together bar_width,
\* where bar_width is the configured width if that is not 0 and otherwise
\* the available width less the description and its space less 6, but 10 at
\* least.
C26_FillIsFloorOfShare ==
    (pbOp.op = "Render" /\ pb.total > 0) =>
        LET avail == pbOp.arg
            auto == avail - (IF pbLook.description > 0
                             THEN pbLook.description + 1 ELSE 0) - 6
            width == IF pbLook.width # 0 THEN pbLook.width
                     ELSE IF auto > 10 THEN auto ELSE 10
        IN  /\ Len(DrawnAs("complete")) <= 1
            /\ Len(DrawnAs("remaining")) <= 1
            /\ \A i, j \in 1..Len(pbDrawn) :
                  (pbDrawn[i].part = "complete" /\ pbDrawn[j].part = "remaining")
                      => i < j
            /\ GlyphsOf("complete") = (width * pb.current) \div pb.total
            /\ GlyphsOf("complete") + GlyphsOf("remaining") = width

\* C23: a tick loop that has taken a tick advances every spinner in the
\* registry by exactly one frame (and changes nothing else of the registry),
\* then calls render, which paints every task of the registry before the
\* loop waits for the next tick; no other step changes a frame index.
C23_TickAdvancesThenRepaints ==
    [][/\ \A l \in Loops :
            /\ (pc[l] = "select" /\ pc'[l] # "select") =>
                   pc'[l] \in {"advance", "exited"}
            /\ (pc[l] = "advance" /\ pc'[l] # "advance") =>
                   /\ pc'[l] = "r_begin"
                   /\ DOMAIN tasks' = DOMAIN tasks
                   /\ \A i \in DOMAIN tasks :
                         tasks'[i] =
                            IF tasks[i].kind = "spinner"
                            THEN [tasks[i] EXCEPT !.frameIndex =
                                    IF @ = NumFrames - 1 THEN 0 ELSE @ + 1]
                            ELSE tasks[i]
            /\ (pc[l] = "r_begin" /\ pc'[l] = "select") => DOMAIN tasks = {}
            /\ (pc[l] = "r_paint" /\ pc'[l] = "select") =>
                   lineCount[l] = Cardinality(DOMAIN tasks)
       /\ (\E i \in DOMAIN tasks \cap DOMAIN tasks' :
               tasks'[i].frameIndex # tasks[i].frameIndex) =>
            \E l \in Loops : pc[l] = "advance" /\ pc'[l] = "r_begin"]_vars

\* a spinner that two ticks moved on has been painted by the final repaint
\* of Stop, next to a bar that was updated
C23_Witness ==
    /\ \E t \in Callers : pc[t] = "stop_newline"
    /\ \E i \in DOMAIN tasks, r \in DOMAIN screen :
          /\ tasks[i].kind = "spinner"
          /\ tasks[i].frameIndex = 2
          /\ screen[r] = i
    /\ nCalls > 0

\* C21: in a run of a persistent engine Stop makes one final repaint, which
\* paints every task of the registry on the lines above the cursor, then
\* writes a newline, then show-cursor; once show-cursor is written nothing
\* more is written to the sink in that run.
C21_ShowCursorIsLastWrite ==
    [][/\ \A t \in Callers :
            /\ (pc[t] = "stop_close" /\ pc'[t] # "stop_close") =>
                   pc'[t] = "r_begin"
            /\ (pc[t] = "r_paint" /\ pc'[t] = "stop_newline") =>
                   /\ lineCount[t] = Cardinality(DOMAIN tasks)
                   /\ \A i \in DOMAIN tasks :
                         \E r \in (cur - lineCount[t])..(cur - 1) :
                             r \in DOMAIN screen /\ screen[r] = i
            /\ (pc[t] = "stop_newline" /\ pc'[t] # "stop_newline") =>
                   pc'[t] = "stop_show" /\ cur' = cur + 1 /\ screen' = screen
            /\ (pc[t] = "stop_show" /\ pc'[t] # "stop_show") =>
                   pc'[t] = "idle" /\ ~cursorHidden'
       /\ Quiescent =>
            /\ cur' = cur
            /\ screen' = screen
            /\ cursorHidden' = cursorHidden]_vars

\* C27: a repaint some of whose writes failed still sets lastLineCount to the
\* number of tasks it went through, which is the number of tasks in the
\* registry, and no step of a repaint changes the registry.
C27_FailedWritesKeepCount ==
    [][\A t \in Threads :
         /\ (pc[t] = "r_paint" /\ pc'[t] = Ret(t) /\ hist.failed[t]) =>
               lastLineCount' = Cardinality(DOMAIN tasks)
         /\ (pc[t] \in {"r_up", "r_paint"} /\ (pc'[t] # pc[t] \/ todo'[t] # todo[t])) =>
               /\ tasks' = tasks
               /\ taskSeq' = taskSeq]_vars

\* a repaint of two tasks has returned although the newline of one of its
\* task lines had failed, which left the cursor a line short
C27_Witness ==
    \E t \in Loops :
        /\ pc[t] = "select"
        /\ hist.failed[t]
        /\ lastLineCount = 2
        /\ cur < 2

\* C24: a repaint first moves the cursor up by the number N of lines the
\* previous repaint painted when N > 0 and leaves the cursor where it is when
\* the previous repaint painted none; then every one of its steps paints one
\* whole line (clear, content, newline) of a task of the registry it has not
\* painted yet in this repaint, and it ends only when every task of the
\* registry has been painted once.
C24_RepaintProtocol ==
    [][\A t \in Threads :
         /\ (pc[t] = "r_up" /\ pc'[t] = "r_paint") =>
               cur' = IF hist.painted > 0 THEN CursorUp(cur, hist.painted)
                                          ELSE cur
         /\ (pc[t] = "r_paint" /\ todo'[t] # todo[t]) =>
               \E id \in todo[t] \cap DOMAIN tasks :
                  /\ todo'[t] = todo[t] \ {id}
                  /\ screen' = WriteLine(screen, cur, id)
                  /\ cur' = cur + 1
                  /\ lineCount'[t] = lineCount[t] + 1
         /\ (pc[t] = "r_paint" /\ pc'[t] = Ret(t)) =>
               /\ todo[t] = {}
               /\ lineCount[t] = Cardinality(DOMAIN tasks)]_vars

\* C28: the registry calls (Add, Update, Advance, Complete, Remove) wait for
\* nothing but p.mu, and whenever p.mu is held in a live process it is
\* released again by steps that need no timer tick: the holder is inside
\* render, can always take its next step, and the lock becomes free.
C28_CallsNeverWaitForTick ==
    /\ [](readers # {} /\ ~panicked =>
            \A t \in readers :
               \/ pc[t] = "r_up"
               \/ pc[t] = "r_paint" /\ todo[t] \subseteq DOMAIN tasks)
    /\ (~CanLock /\ ~panicked) ~> (CanLock \/ panicked)

\* the tick loop is inside render and holds the lock while the timer is
\* stopped, after a call has already updated the task
C28_Witness ==
    \E l \in Loops :
        /\ l \in readers
        /\ ticker.set /\ ~ticker.armed /\ ~ticker.pending
        /\ nCalls = 1

====
